---------------------------- MODULE Spec2Model ----------------------------
(***************************************************************************)
(* A model of android/native/analyze_dumpbinary_logs.py: the extractor     *)
(* parse_log, the aggregator stats/percentile, the segmenter segment_avgs  *)
(* and the driver main.                                                    *)
(*                                                                         *)
(* Python's float is IEEE-754 binary64.  The program's float results       *)
(* decide integer outcomes (int(i * seg_size), int(k)), so the arithmetic  *)
(* is modelled bit for bit: a non-negative float is a record               *)
(*     [ip |-> integer part, fr |-> fraction bits, most significant first] *)
(* with no trailing zero bit, and every operation rounds its exact result  *)
(* to Precision significant bits, ties to even.                            *)
(***************************************************************************)
EXTENDS Integers, Sequences, FiniteSets, TLC

-----------------------------------------------------------------------------
(* binary64 arithmetic on non-negative values.  The fraction of a float is *)
(* held as four limbs of LimbBits bits, most significant first: the value  *)
(* of [ip, fr] is ip + (fr[1]*B^3 + fr[2]*B^2 + fr[3]*B + fr[4]) / B^4.    *)

Precision == 53

LimbBits == 16
NLimbs   == 4
B        == 2 ^ LimbBits
FracBits == NLimbs * LimbBits

RECURSIVE BitLength(_)
BitLength(x) == IF x = 0 THEN 0 ELSE 1 + BitLength(x \div 2)

\* the limb that holds fraction bit j (1 = most significant), and the
\* weight of that bit inside its limb
LimbOf(j)   == (j - 1) \div LimbBits + 1
WeightOf(j) == 2 ^ (LimbBits - (((j - 1) % LimbBits) + 1))

BitAt(fr, j) == (fr[LimbOf(j)] \div WeightOf(j)) % 2

LeadingZeros(fr) ==
    IF \A l \in 1..NLimbs : fr[l] = 0 THEN FracBits
    ELSE LET l == CHOOSE m \in 1..NLimbs :
                      fr[m] # 0 /\ \A h \in 1..(m - 1) : fr[h] = 0
         IN  LimbBits * (l - 1) + (LimbBits - BitLength(fr[l]))

\* the fraction cut after bit keep (1 <= keep <= FracBits)
CutAfter(fr, keep) ==
    [l \in 1..NLimbs |->
        IF l < LimbOf(keep) THEN fr[l]
        ELSE IF l > LimbOf(keep) THEN 0
        ELSE fr[l] - (fr[l] % WeightOf(keep))]

\* the fraction plus one unit at bit keep, with the carry into the integer
AddUlp(fr, keep) ==
    LET s4 == fr[4] + (IF LimbOf(keep) = 4 THEN WeightOf(keep) ELSE 0)
        s3 == fr[3] + (IF LimbOf(keep) = 3 THEN WeightOf(keep) ELSE 0) + (s4 \div B)
        s2 == fr[2] + (IF LimbOf(keep) = 2 THEN WeightOf(keep) ELSE 0) + (s3 \div B)
        s1 == fr[1] + (IF LimbOf(keep) = 1 THEN WeightOf(keep) ELSE 0) + (s2 \div B)
    IN  [carry |-> s1 \div B, fr |-> <<s1 % B, s2 % B, s3 % B, s4 % B>>]

\* the exact value ip + 0.fr (+ something below the last bit when sticky),
\* rounded to Precision significant bits, round-half-to-even
RoundFloat(ip, fr, sticky) ==
    LET keep == IF ip > 0 THEN Precision - BitLength(ip)
                ELSE LeadingZeros(fr) + Precision
    IN  IF keep >= FracBits
        THEN [ip |-> ip, fr |-> fr]
        ELSE LET guard == BitAt(fr, keep + 1)
                 rest  == sticky \/ \E j \in (keep + 2)..FracBits : BitAt(fr, j) = 1
                 odd   == BitAt(fr, keep) = 1
                 kept  == CutAfter(fr, keep)
             IN  IF guard = 1 /\ (rest \/ odd)
                 THEN LET r == AddUlp(kept, keep)
                      IN  [ip |-> ip + r.carry, fr |-> r.fr]
                 ELSE [ip |-> ip, fr |-> kept]

\* int -> float (exact for the integers of the model, all below 2^Precision)
FromInt(m) == [ip |-> m, fr |-> <<0, 0, 0, 0>>]

\* a / b for integers a >= 0, b > 0 (Python's true division, correctly
\* rounded): long division, one limb at a time
DivInt(a, b) ==
    LET r0 == a % b
        r1 == (r0 * B) % b
        r2 == (r1 * B) % b
        r3 == (r2 * B) % b
        r4 == (r3 * B) % b
    IN  RoundFloat(a \div b,
                   <<(r0 * B) \div b, (r1 * B) \div b, (r2 * B) \div b, (r3 * B) \div b>>,
                   r4 # 0)

\* float x times integer d >= 0: the exact product, then rounded
MulInt(x, d) ==
    LET t4 == x.fr[4] * d
        t3 == x.fr[3] * d + (t4 \div B)
        t2 == x.fr[2] * d + (t3 \div B)
        t1 == x.fr[1] * d + (t2 \div B)
    IN  RoundFloat(x.ip * d + (t1 \div B), <<t1 % B, t2 % B, t3 % B, t4 % B>>, FALSE)

\* float x plus integer m >= 0
AddInt(x, m) == RoundFloat(x.ip + m, x.fr, FALSE)

\* float x minus integer m, for m <= x
SubInt(x, m) == RoundFloat(x.ip - m, x.fr, FALSE)

\* int(x): truncation toward zero
Trunc(x) == x.ip

\* x <= y on floats
FloatLE(x, y) ==
    \/ x.ip < y.ip
    \/ /\ x.ip = y.ip
       /\ \/ x.fr = y.fr
          \/ \E l \in 1..NLimbs :
                /\ x.fr[l] < y.fr[l]
                /\ \A h \in 1..(l - 1) : x.fr[h] = y.fr[h]

IsZero(x) == x.ip = 0 /\ x.fr = <<0, 0, 0, 0>>

-----------------------------------------------------------------------------
(* parse_log: the text of a log file is a sequence of tokens.  The literal *)
(* parts of the pattern are single tokens; whitespace and digits are       *)
(* single characters.                                                      *)

TAG      == "[Fastbot]:"
DUMP     == "// dumpBinary:"
MS       == "ms"
FAILMARK == "(buffer full or fail)"
FILLER   == "x"

Spaces    == {" ", "\t", "\n"}
DigitChar == <<"0", "1", "2", "3", "4", "5", "6", "7", "8", "9">>
Digits    == {DigitChar[j] : j \in 1..10}

DigitValue(ch) == (CHOOSE j \in 1..10 : DigitChar[j] = ch) - 1

\* int(m.group(1)): the decimal value of a string of digits
RECURSIVE IntOf(_)
IntOf(ds) ==
    IF ds = <<>> THEN 0
    ELSE 10 * IntOf(SubSeq(ds, 1, Len(ds) - 1)) + DigitValue(ds[Len(ds)])

\* the first position at or after p whose token is not in class
RECURSIVE Span(_, _, _)
Span(t, p, class) ==
    IF p <= Len(t) /\ t[p] \in class THEN Span(t, p + 1, class) ELSE p

At(t, p) == IF p >= 1 /\ p <= Len(t) THEN t[p] ELSE "<end>"

NoMatch == [ok |-> FALSE, stop |-> 0, digits |-> <<>>, marker |-> FALSE]

\* the pattern matched at position p of t:
\*   \[Fastbot\]:\s+// dumpBinary:\s+(\d+)\s+ms(\s+\(buffer full or fail\))?
\* stop is the position after the match
MatchAt(t, p) ==
    LET a == Span(t, p + 1, Spaces)      \* \s+ after the tag
        b == Span(t, a + 1, Spaces)      \* \s+ after // dumpBinary:
        c == Span(t, b, Digits)          \* (\d+)
        d == Span(t, c, Spaces)          \* \s+ before ms
        e == Span(t, d + 1, Spaces)      \* \s+ of the optional group
    IN  IF /\ At(t, p) = TAG
           /\ a > p + 1
           /\ At(t, a) = DUMP
           /\ b > a + 1
           /\ c > b
           /\ d > c
           /\ At(t, d) = MS
        THEN IF e > d + 1 /\ At(t, e) = FAILMARK
             THEN [ok |-> TRUE, stop |-> e + 1,
                   digits |-> SubSeq(t, b, c - 1), marker |-> TRUE]
             ELSE [ok |-> TRUE, stop |-> d + 1,
                   digits |-> SubSeq(t, b, c - 1), marker |-> FALSE]
        ELSE NoMatch

\* pat.finditer: the leftmost match starting at or after position p
RECURSIVE NextMatch(_, _)
NextMatch(t, p) ==
    IF p > Len(t) THEN NoMatch
    ELSE IF MatchAt(t, p).ok THEN MatchAt(t, p)
    ELSE NextMatch(t, p + 1)

\* one (ms, is_fail) pair
Event(ms, is_fail) == <<ms, is_fail>>

\* the flag read the wrong way round: m.group(2) is None
MutEventOf(m) == Event(IntOf(m.digits), ~m.marker)

\* the pair parse_log appends for a match
EventOf(m) == Event(IntOf(m.digits), m.marker)

\* parse_log as a whole: the events of the text from position p on
RECURSIVE ParseFrom(_, _)
ParseFrom(t, p) ==
    LET m == NextMatch(t, p)
    IN  IF m.ok THEN <<EventOf(m)>> \o ParseFrom(t, m.stop) ELSE <<>>

parse_log(t) == ParseFrom(t, 1)

-----------------------------------------------------------------------------
(* stats and percentile                                                    *)

\* Python's None
None == [none |-> TRUE]

Ms(data)    == [j \in 1..Len(data) |-> data[j][1]]
Fails(data) == [j \in 1..Len(data) |-> data[j][2]]

RECURSIVE Sum(_)
Sum(xs) == IF xs = <<>> THEN 0 ELSE Head(xs) + Sum(Tail(xs))

\* sum over a list of booleans, and sum(1 for x in data if x[1])
RECURSIVE CountTrue(_)
CountTrue(bs) ==
    IF bs = <<>> THEN 0 ELSE (IF Head(bs) THEN 1 ELSE 0) + CountTrue(Tail(bs))

RECURSIVE MinOf(_)
MinOf(xs) ==
    IF Len(xs) = 1 THEN xs[1]
    ELSE LET m == MinOf(Tail(xs)) IN IF Head(xs) <= m THEN Head(xs) ELSE m

RECURSIVE MaxOf(_)
MaxOf(xs) ==
    IF Len(xs) = 1 THEN xs[1]
    ELSE LET m == MaxOf(Tail(xs)) IN IF Head(xs) >= m THEN Head(xs) ELSE m

\* x inserted into the ascending list xs
RECURSIVE Insert(_, _)
Insert(x, xs) ==
    IF xs = <<>> THEN <<x>>
    ELSE IF x <= Head(xs) THEN <<x>> \o xs
    ELSE <<Head(xs)>> \o Insert(x, Tail(xs))

\* sorted(ms_list)
RECURSIVE sorted(_)
sorted(xs) == IF xs = <<>> THEN <<>> ELSE Insert(Head(xs), sorted(Tail(xs)))

\* a rank counted from the top of the array
MutRank(n, p) == DivInt((n - 1) * (100 - p), 100)

\* k = (len(sorted_arr) - 1) * p / 100
Rank(n, p) == DivInt((n - 1) * p, 100)

\* int(k) taken as the nearest integer, halves upward
MutRankFloor(k) == IF BitAt(k.fr, 1) = 1 THEN k.ip + 1 ELSE k.ip

\* f = int(k)
RankFloor(k) == Trunc(k)

\* c = f + 1 if f + 1 < len(sorted_arr) else f
RankCeil(f, n) == IF f + 1 < n THEN f + 1 ELSE f

\* percentile(sorted_arr, p); sorted_arr[f] of the source is arr[f + 1] here
percentile(sorted_arr, p) ==
    IF sorted_arr = <<>> THEN FromInt(0)
    ELSE LET k == Rank(Len(sorted_arr), p)
             f == RankFloor(k)
             c == RankCeil(f, Len(sorted_arr))
         IN  IF c > f
             THEN AddInt(MulInt(SubInt(k, f), sorted_arr[c + 1] - sorted_arr[f + 1]),
                         sorted_arr[f + 1])
             ELSE FromInt(sorted_arr[f + 1])

\* s = sorted(ms_list)
SortedMs(data) == sorted(Ms(data))

\* the dict stats returns for a non-empty series (lines 32-48)
StatsDict(data, name) ==
    LET ms_list == Ms(data)
        fails   == CountTrue(Fails(data))
        n       == Len(ms_list)
        s       == SortedMs(data)
    IN  [name      |-> name,
         n         |-> n,
         min       |-> MinOf(ms_list),
         max       |-> MaxOf(ms_list),
         mean      |-> DivInt(Sum(ms_list), n),
         p50       |-> percentile(s, 50),
         p90       |-> percentile(s, 90),
         p95       |-> percentile(s, 95),
         p99       |-> percentile(s, 99),
         fails     |-> fails,
         fail_rate |-> DivInt(100 * fails, n)]

\* stats that answers an empty series with a dict of zeros
MutStats(data, name) ==
    IF data = <<>>
    THEN [name |-> name, n |-> 0, min |-> 0, max |-> 0, mean |-> FromInt(0),
          p50 |-> FromInt(0), p90 |-> FromInt(0), p95 |-> FromInt(0),
          p99 |-> FromInt(0), fails |-> 0, fail_rate |-> FromInt(0)]
    ELSE StatsDict(data, name)

\* stats(data, name)
stats(data, name) ==
    IF data = <<>> THEN None ELSE StatsDict(data, name)

-----------------------------------------------------------------------------
(* segment_avgs                                                            *)

\* seg_size = n / num_segments
SegSize(n, num_segments) == DivInt(n, num_segments)

\* start = int(i * seg_size)
SegStart(i, seg_size) == Trunc(MulInt(seg_size, i))

\* the end of the last segment computed like the other ends
MutSegEnd(i, seg_size, num_segments, n) == Trunc(MulInt(seg_size, i + 1))

\* end = int((i + 1) * seg_size) if i < num_segments - 1 else n
SegEnd(i, seg_size, num_segments, n) ==
    IF i < num_segments - 1 THEN Trunc(MulInt(seg_size, i + 1)) ELSE n

\* a segment of one event skipped as well
MutSegSkipped(start, end) == start + 1 >= end

\* if start >= end: continue
SegSkipped(start, end) == start >= end

\* the index a segment is reported with
SegIndex(i, result) == i + 1

\* xs[start:end] of the source (0-based, end exclusive)
Slice(xs, start, end) == SubSeq(xs, start + 1, end)

\* the tuple appended for iteration i
SegTuple(data, i, start, end, result) ==
    LET seg_ms     == Slice(Ms(data), start, end)
        seg_fail   == Slice(Fails(data), start, end)
        fail_count == CountTrue(seg_fail)
    IN  [index      |-> SegIndex(i, result),
         first      |-> start + 1,
         last       |-> end,
         count      |-> Len(seg_ms),
         avg_ms     |-> DivInt(Sum(seg_ms), Len(seg_ms)),
         fail_count |-> fail_count,
         fail_rate  |-> DivInt(100 * fail_count, Len(seg_ms))]

\* one iteration of the loop over range(num_segments)
SegBody(data, num_segments, seg_size, i, result) ==
    LET start == SegStart(i, seg_size)
        end   == SegEnd(i, seg_size, num_segments, Len(data))
    IN  IF SegSkipped(start, end) THEN result
        ELSE Append(result, SegTuple(data, i, start, end, result))

RECURSIVE SegLoop(_, _, _, _, _)
SegLoop(data, num_segments, seg_size, i, result) ==
    IF i >= num_segments THEN result
    ELSE SegLoop(data, num_segments, seg_size, i + 1,
                 SegBody(data, num_segments, seg_size, i, result))

\* segment_avgs(data, num_segments) as a whole
segment_avgs(data, num_segments) ==
    IF data = <<>> THEN <<>>
    ELSE SegLoop(data, num_segments, SegSize(Len(data), num_segments), 0, <<>>)

-----------------------------------------------------------------------------
(* The state: the locals of each function while it runs, and the process   *)
(* state of main (the two files, standard output, the error channel, the   *)
(* exit status).                                                           *)

VARIABLES
    pieces,        \* parse_log: how the text read from the file is composed
    text,          \* parse_log: text
    pos,           \* parse_log: where finditer resumes its scan
    pdata,         \* parse_log: data
    ppc,           \* parse_log: position in the function
    sdata,         \* stats: data
    sres,          \* stats: the value returned
    pres,          \* percentile: the call (sorted_arr, p) and the value returned
    spc,           \* stats/percentile: position
    gdata,         \* segment_avgs: data
    num_segments,  \* segment_avgs: num_segments
    seg_size,      \* segment_avgs: seg_size
    i,             \* segment_avgs: the loop variable
    result,        \* segment_avgs: result
    computed,      \* segment_avgs: the (i, start, end) of every iteration so far
    gpc,           \* segment_avgs: position
    log1, log2,    \* main: the two files, a text or Missing
    d1, d2,        \* main: d1, d2
    s1, s2,        \* main: s1, s2
    out,           \* main: the lines printed to standard output
    err,           \* main: the lines printed to sys.stderr
    calls,         \* main: the files parse_log was called on
    status,        \* main: the exit status of the process
    mpc            \* main: position

parseVars == <<pieces, text, pos, pdata, ppc>>
statVars  == <<sdata, sres, pres, spc>>
segVars   == <<gdata, num_segments, seg_size, i, result, computed, gpc>>
mainVars  == <<log1, log2, d1, d2, s1, s2, out, err, calls, status, mpc>>
vars      == <<parseVars, statVars, segVars, mainVars>>

\* a file that does not exist, and a file that holds the text t
Missing == [exists |-> FALSE, text |-> <<>>]
File(t) == [exists |-> TRUE, text |-> t]

\* the exit status of a process that has not exited, and of one that has
Running == <<>>
Exited(code) == <<code>>

ParseIdle ==
    pieces = <<>> /\ text = <<>> /\ pos = 0 /\ pdata = <<>> /\ ppc = "idle"
StatIdle ==
    sdata = <<>> /\ sres = None /\ pres = None /\ spc = "idle"
SegIdle ==
    /\ gdata = <<>> /\ num_segments = 0 /\ seg_size = None /\ i = 0
    /\ result = <<>> /\ computed = <<>> /\ gpc = "idle"
MainIdle ==
    /\ log1 = Missing /\ log2 = Missing /\ d1 = <<>> /\ d2 = <<>>
    /\ s1 = None /\ s2 = None /\ out = <<>> /\ err = <<>> /\ calls = <<>>
    /\ status = Running /\ mpc = "idle"

\* all sequences over S of length at most n
SeqUpTo(S, n) == UNION {[1..k -> S] : k \in 0..n}

RECURSIVE Flatten(_)
Flatten(ss) == IF ss = <<>> THEN <<>> ELSE Head(ss) \o Flatten(Tail(ss))

-----------------------------------------------------------------------------
(* parse_log, step by step, on texts composed of event lines and of text   *)
(* that is no event line.                                                  *)

MaxPieces == 3

\* the digit strings of the event lines, each with the number it denotes
Numerals ==
    { [digits |-> <<"1", "2", "0">>, value |-> 120],
      [digits |-> <<"3", "4", "0">>, value |-> 340],
      [digits |-> <<"0", "7">>,      value |-> 7] }

\* the whitespace between the parts of an event line
Gaps == { <<" ">>, <<"\n", "\t">> }

EventPieces ==
    { [kind |-> "event", num |-> nm, gap |-> g, failed |-> fl] :
          nm \in Numerals, g \in Gaps, fl \in BOOLEAN }

JunkTexts ==
    { <<FILLER>>,                                   \* any other text
      <<"\n">>,                                     \* a line end
      <<FAILMARK>>,                                 \* the marker alone
      <<TAG, " ", DUMP, " ", MS>>,                  \* no digits
      <<TAG, " ", DUMP, " ", "4", MS>>,             \* no whitespace before ms
      <<TAG, DUMP, " ", "4", " ", MS>>,             \* no whitespace after the tag
      <<TAG, " ", DUMP, " ", "4", " ">> }           \* a line cut before ms

JunkPieces == { [kind |-> "junk", tokens |-> t] : t \in JunkTexts }

PieceText(pc) ==
    IF pc.kind = "junk" THEN pc.tokens
    ELSE <<TAG>> \o pc.gap \o <<DUMP>> \o pc.gap \o pc.num.digits \o pc.gap \o <<MS>>
         \o (IF pc.failed THEN pc.gap \o <<FAILMARK>> ELSE <<>>)

TextOf(ps) == Flatten([j \in 1..Len(ps) |-> PieceText(ps[j])])

\* A marker that follows an event line's "ms" after whitespace only is part
\* of that event line: such a text is composed with a failed event piece.
MarkerJoins(ps, j) ==
    /\ ps[j].kind = "junk" /\ ps[j].tokens = <<FAILMARK>>
    /\ \E h \in 1..(j - 1) :
          /\ ps[h].kind = "event" /\ ~ps[h].failed
          /\ h < j - 1
          /\ \A m \in (h + 1)..(j - 1) : ps[m].kind = "junk" /\ ps[m].tokens = <<"\n">>

Compositions ==
    { ps \in SeqUpTo(EventPieces \cup JunkPieces, MaxPieces) :
          \A j \in 1..Len(ps) : ~MarkerJoins(ps, j) }

\* the events the text was composed of, in order
EventsOf(ps) ==
    LET ev == SelectSeq(ps, LAMBDA pc : pc.kind = "event")
    IN  [j \in 1..Len(ev) |-> <<ev[j].num.value, ev[j].failed>>]

InitParse ==
    /\ pieces \in Compositions
    /\ text = <<>> /\ pos = 0 /\ pdata = <<>> /\ ppc = "call"
    /\ StatIdle /\ SegIdle /\ MainIdle

\* data = []; pat = re.compile(...); text = path.read_text(errors='replace')
ParseEnter ==
    /\ ppc = "call"
    /\ text' = TextOf(pieces)
    /\ pos' = 1
    /\ pdata' = <<>>
    /\ ppc' = "scan"
    /\ UNCHANGED <<pieces, statVars, segVars, mainVars>>

\* for m in pat.finditer(text): one iteration
ParseIter ==
    /\ ppc = "scan"
    /\ NextMatch(text, pos).ok
    /\ pdata' = Append(pdata, EventOf(NextMatch(text, pos)))
    /\ pos' = NextMatch(text, pos).stop
    /\ UNCHANGED <<pieces, text, ppc, statVars, segVars, mainVars>>

\* finditer is exhausted: return data
ParseReturn ==
    /\ ppc = "scan"
    /\ ~NextMatch(text, pos).ok
    /\ ppc' = "done"
    /\ UNCHANGED <<pieces, text, pos, pdata, statVars, segVars, mainVars>>

NextParse == ParseEnter \/ ParseIter \/ ParseReturn

SpecParse == InitParse /\ [][NextParse]_vars

-----------------------------------------------------------------------------
(* stats and percentile on every series up to a length                     *)

MaxStatLen == 3
MaxDur     == 3

StatDurations == {10 * j : j \in 0..MaxDur}
StatSeries    == SeqUpTo(StatDurations \X BOOLEAN, MaxStatLen)
Percents      == {50, 90, 95, 99}

InitStats ==
    /\ sdata \in StatSeries
    /\ sres = None /\ pres = None /\ spc = "call"
    /\ ParseIdle /\ SegIdle /\ MainIdle

\* stats(data, name)
StatsCall ==
    /\ spc = "call"
    /\ sres' = stats(sdata, "fastbot1")
    /\ spc' = "stats"
    /\ UNCHANGED <<sdata, pres, parseVars, segVars, mainVars>>

\* percentile(sorted_arr, p) on the sorted durations
PercentileCall ==
    /\ spc = "call"
    /\ \E p \in Percents :
          pres' = [sorted_arr |-> SortedMs(sdata), p |-> p,
                   value |-> percentile(SortedMs(sdata), p)]
    /\ spc' = "percentile"
    /\ UNCHANGED <<sdata, sres, parseVars, segVars, mainVars>>

NextStats == StatsCall \/ PercentileCall

SpecStats == InitStats /\ [][NextStats]_vars

-----------------------------------------------------------------------------
(* segment_avgs, one loop iteration at a time                              *)

MaxLen      == 30
MaxSegments == 22

\* a series of n events, each told from the others by its duration
SeriesOfLen(n) == [j \in 1..n |-> Event(j, j % 3 = 0)]

InitSeg ==
    /\ \E n \in 0..MaxLen : gdata = SeriesOfLen(n)
    /\ num_segments \in 1..MaxSegments
    /\ seg_size = None /\ i = 0 /\ result = <<>> /\ computed = <<>>
    /\ gpc = "call"
    /\ ParseIdle /\ StatIdle /\ MainIdle

\* if not data: return []
SegEmpty ==
    /\ gpc = "call"
    /\ gdata = <<>>
    /\ gpc' = "done"
    /\ UNCHANGED <<gdata, num_segments, seg_size, i, result, computed,
                   parseVars, statVars, mainVars>>

\* n = len(data) ... seg_size = n / num_segments; result = []
SegEnter ==
    /\ gpc = "call"
    /\ gdata # <<>>
    /\ seg_size' = SegSize(Len(gdata), num_segments)
    /\ i' = 0
    /\ result' = <<>>
    /\ gpc' = "loop"
    /\ UNCHANGED <<gdata, num_segments, computed, parseVars, statVars, mainVars>>

SegNote ==
    computed' = Append(computed,
                       [i     |-> i,
                        start |-> SegStart(i, seg_size),
                        end   |-> SegEnd(i, seg_size, num_segments, Len(gdata))])

\* an iteration that skips its segment: if start >= end: continue
SegSkip ==
    /\ gpc = "loop"
    /\ i < num_segments
    /\ SegSkipped(SegStart(i, seg_size), SegEnd(i, seg_size, num_segments, Len(gdata)))
    /\ SegNote
    /\ i' = i + 1
    /\ UNCHANGED <<gdata, num_segments, seg_size, result, gpc,
                   parseVars, statVars, mainVars>>

\* an iteration that appends its segment
SegEmit ==
    /\ gpc = "loop"
    /\ i < num_segments
    /\ ~SegSkipped(SegStart(i, seg_size), SegEnd(i, seg_size, num_segments, Len(gdata)))
    /\ result' = SegBody(gdata, num_segments, seg_size, i, result)
    /\ SegNote
    /\ i' = i + 1
    /\ UNCHANGED <<gdata, num_segments, seg_size, gpc,
                   parseVars, statVars, mainVars>>

\* range(num_segments) is exhausted: return result
SegReturn ==
    /\ gpc = "loop"
    /\ i >= num_segments
    /\ gpc' = "done"
    /\ UNCHANGED <<gdata, num_segments, seg_size, i, result, computed,
                   parseVars, statVars, mainVars>>

NextSeg == SegEmpty \/ SegEnter \/ SegSkip \/ SegEmit \/ SegReturn

SpecSeg == InitSeg /\ [][NextSeg]_vars

-----------------------------------------------------------------------------
(* main.  A log file is Missing or holds event lines; standard output and  *)
(* the error channel are the sequences of the lines printed.  The values   *)
(* in a line are the values handed to the format string, before they are   *)
(* formatted.                                                              *)

MaxEvents == 2

MainNumerals ==
    { [digits |-> <<"0">>, value |-> 0],
      [digits |-> <<"1", "2", "0">>, value |-> 120] }

MainLines ==
    { [kind |-> "event", num |-> nm, gap |-> <<" ">>, failed |-> fl] :
          nm \in MainNumerals, fl \in BOOLEAN }

\* the text of a log of event lines, each ended by a line end
LogText(ls) == Flatten([j \in 1..Len(ls) |-> PieceText(ls[j]) \o <<"\n">>])

LogFiles == {Missing} \cup {File(LogText(ls)) : ls \in SeqUpTo(MainLines, MaxEvents)}

Name1 == "fastbot1"
Name2 == "fastbot2"

\* log.exists()
Exists(log) == log.exists

\* one exit status for either missing file
MutMissingStatus(k) == 1

\* the argument of sys.exit for the missing file k
MissingStatus(k) == k

\* what the interpreter does with an exception nobody catches: the
\* traceback goes to sys.stderr and the process exits with status 1
UncaughtStatus == 1

Line(kind) == [kind |-> kind]

\* lines 86-91: the banner and the heading of part one
Banner == <<Line("rule"), Line("title"), Line("rule"), Line("blank"),
            Line("heading1"), Line("dash")>>

\* lines 95-101: the block of one series, printed when s is not None
StatsBlock(s) ==
    IF s = None THEN <<>>
    ELSE << [kind |-> "name", series |-> s.name],
            [kind |-> "n", series |-> s.name, n |-> s.n],
            [kind |-> "minmax", series |-> s.name, min |-> s.min, max |-> s.max],
            [kind |-> "mean", series |-> s.name, mean |-> s.mean],
            [kind |-> "percentiles", series |-> s.name,
             p50 |-> s.p50, p90 |-> s.p90, p95 |-> s.p95, p99 |-> s.p99],
            [kind |-> "fails", series |-> s.name,
             fails |-> s.fails, fail_rate |-> s.fail_rate],
            Line("blank") >>

\* if s1 and s2: a non-empty dict is true, None is false
BothStats(a, b) == a # None /\ b # None

\* (s2['mean'] - s1['mean']) / s1['mean'] raises ZeroDivisionError
MeanChangeRaises(a) == IsZero(a.mean)

\* line 106
SummaryCount(a, b) == [kind |-> "summary_n", before |-> a.n, after |-> b.n,
                       diff |-> b.n - a.n]

\* lines 107-110; the percent change of line 107 is not a field: only
\* whether computing it raises is modelled
SummaryRest(a, b) ==
    << [kind |-> "summary_mean", before |-> a.mean, after |-> b.mean],
       [kind |-> "summary_max", before |-> a.max, after |-> b.max],
       [kind |-> "summary_p99", before |-> a.p99, after |-> b.p99],
       [kind |-> "summary_fail_rate", before |-> a.fail_rate, after |-> b.fail_rate] >>

\* lines 115-118: one series of part three
TrendRows(name, data) ==
    LET segs == segment_avgs(data, 4)
    IN  <<[kind |-> "trend_name", series |-> name]>>
        \o [j \in 1..Len(segs) |-> [kind |-> "trend_row", series |-> name, seg |-> segs[j]]]
        \o <<Line("blank")>>

\* lines 122-126: one series of part four
TrendLine(name, data) ==
    LET segs  == segment_avgs(data, 10)
        shown == {k \in 1..10 : k <= Len(segs)}
    IN  << [kind |-> "trend_name", series |-> name],
           [kind |-> "trend_line", series |-> name,
            cells |-> [k \in 1..Cardinality(shown) |->
                          [label |-> k, avg_ms |-> segs[k].avg_ms]]],
           Line("blank") >>

Init ==
    /\ log1 \in LogFiles
    /\ log2 \in LogFiles
    /\ d1 = <<>> /\ d2 = <<>> /\ s1 = None /\ s2 = None
    /\ out = <<>> /\ err = <<>> /\ calls = <<>>
    /\ status = Running
    /\ mpc = "check1"
    /\ ParseIdle /\ StatIdle /\ SegIdle

\* lines 74-76
Missing1 ==
    /\ mpc = "check1"
    /\ ~Exists(log1)
    /\ err' = Append(err, "Missing fastbot1.log")
    /\ status' = Exited(MissingStatus(1))
    /\ mpc' = "exited"
    /\ UNCHANGED <<log1, log2, d1, d2, s1, s2, out, calls,
                   parseVars, statVars, segVars>>

Found1 ==
    /\ mpc = "check1"
    /\ Exists(log1)
    /\ mpc' = "check2"
    /\ UNCHANGED <<log1, log2, d1, d2, s1, s2, out, err, calls, status,
                   parseVars, statVars, segVars>>

\* lines 77-79
Missing2 ==
    /\ mpc = "check2"
    /\ ~Exists(log2)
    /\ err' = Append(err, "Missing fastbot2.log")
    /\ status' = Exited(MissingStatus(2))
    /\ mpc' = "exited"
    /\ UNCHANGED <<log1, log2, d1, d2, s1, s2, out, calls,
                   parseVars, statVars, segVars>>

Found2 ==
    /\ mpc = "check2"
    /\ Exists(log2)
    /\ mpc' = "parse"
    /\ UNCHANGED <<log1, log2, d1, d2, s1, s2, out, err, calls, status,
                   parseVars, statVars, segVars>>

\* lines 81-84
ParseAndStats ==
    /\ mpc = "parse"
    /\ d1' = parse_log(log1.text)
    /\ d2' = parse_log(log2.text)
    /\ calls' = calls \o <<1, 2>>
    /\ s1' = stats(parse_log(log1.text), Name1)
    /\ s2' = stats(parse_log(log2.text), Name2)
    /\ mpc' = "part1"
    /\ UNCHANGED <<log1, log2, out, err, status, parseVars, statVars, segVars>>

\* lines 86-102
PartOne ==
    /\ mpc = "part1"
    /\ out' = out \o Banner \o StatsBlock(s1) \o StatsBlock(s2) \o <<Line("blank")>>
    /\ mpc' = "part2"
    /\ UNCHANGED <<log1, log2, d1, d2, s1, s2, err, calls, status,
                   parseVars, statVars, segVars>>

\* lines 103-111 when the summary is skipped or is printed whole
PartTwo ==
    /\ mpc = "part2"
    /\ ~(BothStats(s1, s2) /\ MeanChangeRaises(s1))
    /\ out' = out \o <<Line("heading2"), Line("dash")>>
                  \o (IF BothStats(s1, s2)
                      THEN <<SummaryCount(s1, s2)>> \o SummaryRest(s1, s2)
                      ELSE <<>>)
                  \o <<Line("blank")>>
    /\ mpc' = "part3"
    /\ UNCHANGED <<log1, log2, d1, d2, s1, s2, err, calls, status,
                   parseVars, statVars, segVars>>

\* lines 103-107 when line 107 raises ZeroDivisionError
PartTwoRaises ==
    /\ mpc = "part2"
    /\ BothStats(s1, s2) /\ MeanChangeRaises(s1)
    /\ out' = out \o <<Line("heading2"), Line("dash"), SummaryCount(s1, s2)>>
    /\ err' = Append(err, "Traceback: ZeroDivisionError")
    /\ status' = Exited(UncaughtStatus)
    /\ mpc' = "exited"
    /\ UNCHANGED <<log1, log2, d1, d2, s1, s2, calls, parseVars, statVars, segVars>>

\* lines 112-118
PartThree ==
    /\ mpc = "part3"
    /\ out' = out \o <<Line("heading3"), Line("dash")>>
                  \o TrendRows(Name1, d1) \o TrendRows(Name2, d2)
    /\ mpc' = "part4"
    /\ UNCHANGED <<log1, log2, d1, d2, s1, s2, err, calls, status,
                   parseVars, statVars, segVars>>

\* lines 119-126
PartFour ==
    /\ mpc = "part4"
    /\ out' = out \o <<Line("heading4"), Line("dash")>>
                  \o TrendLine(Name1, d1) \o TrendLine(Name2, d2)
    /\ mpc' = "return"
    /\ UNCHANGED <<log1, log2, d1, d2, s1, s2, err, calls, status,
                   parseVars, statVars, segVars>>

\* return 0; sys.exit(main())
Return ==
    /\ mpc = "return"
    /\ status' = Exited(0)
    /\ mpc' = "exited"
    /\ UNCHANGED <<log1, log2, d1, d2, s1, s2, out, err, calls,
                   parseVars, statVars, segVars>>

Next ==
    \/ Missing1 \/ Found1 \/ Missing2 \/ Found2
    \/ ParseAndStats \/ PartOne \/ PartTwo \/ PartTwoRaises
    \/ PartThree \/ PartFour \/ Return

Spec == Init /\ [][Next]_vars

-----------------------------------------------------------------------------
(* Properties of segment_avgs (SpecSeg)                                    *)

Returned == gpc = "done"

SegmentSlices ==
    Flatten([k \in 1..Len(result) |->
                Slice(gdata, result[k].first - 1, result[k].last)])

SegmentCounts == [k \in 1..Len(result) |-> result[k].count]

\* C1: when segment_avgs returns, the slices of the series from each
\* segment's start ordinal to its end ordinal, concatenated in emission
\* order, are the series itself (no gap, no overlap), and the segment counts
\* sum to the length of the series; an empty series gives no segment.
C1_Partition ==
    Returned =>
        /\ SegmentSlices = gdata
        /\ Sum(SegmentCounts) = Len(gdata)
        /\ \A k \in 1..Len(result) : result[k].count = result[k].last - result[k].first + 1

\* a run on 30 events in 22 segments has returned all 22 segments
C1_Witness ==
    Returned /\ Len(gdata) = MaxLen /\ num_segments = MaxSegments
             /\ Len(result) = MaxSegments

\* C2: the k-th segment segment_avgs emits carries index k, also when
\* earlier segment indices were skipped as empty.
C2_EmissionIndex ==
    Returned => \A k \in 1..Len(result) : result[k].index = k

\* C6: no emitted segment is empty, and with more segments asked for than
\* there are events (n >= 1) segment_avgs emits exactly n segments of one
\* event each.
C6_OnePerEvent ==
    /\ \A k \in 1..Len(result) : result[k].count >= 1
    /\ (Returned /\ Len(gdata) >= 1 /\ num_segments > Len(gdata)) =>
           /\ Len(result) = Len(gdata)
           /\ \A k \in 1..Len(result) : result[k].count = 1

\* 15 events in 22 segments: 7 iterations skipped, 15 segments of one event
C6_Witness ==
    /\ Returned /\ Len(gdata) = 15 /\ num_segments = MaxSegments
    /\ Len(result) = 15
    /\ Cardinality({k \in 1..Len(computed) : computed[k].start >= computed[k].end}) = 7

CeilDiv(a, b) == (a + b - 1) \div b

\* C9: iteration i of segment_avgs has start = floor(i*n/N), end =
\* floor((i+1)*n/N) for i < N-1 and end = n for i = N-1, and every computed
\* segment has size floor(n/N) or ceil(n/N).
C9_ExactBoundaries ==
    \A k \in 1..Len(computed) :
        LET c == computed[k]
            n == Len(gdata)
        IN  /\ c.start = (c.i * n) \div num_segments
            /\ c.end = IF c.i < num_segments - 1
                       THEN ((c.i + 1) * n) \div num_segments
                       ELSE n
            /\ (c.end - c.start) \in {n \div num_segments, CeilDiv(n, num_segments)}

-----------------------------------------------------------------------------
(* Properties of stats and percentile (SpecStats)                          *)

\* C4: for a non-empty series the dict stats returns has
\* min <= p50 <= p90 <= p95 <= p99 <= max, and fails <= n.
C4_Ordered ==
    (spc = "stats" /\ sdata # <<>>) =>
        /\ FloatLE(FromInt(sres.min), sres.p50)
        /\ FloatLE(sres.p50, sres.p90)
        /\ FloatLE(sres.p90, sres.p95)
        /\ FloatLE(sres.p95, sres.p99)
        /\ FloatLE(sres.p99, FromInt(sres.max))
        /\ sres.fails <= sres.n

\* three events, a failure among them, and strictly increasing percentiles
C4_Witness ==
    /\ spc = "stats" /\ Len(sdata) = 3
    /\ sres.fails >= 1
    /\ ~FloatLE(sres.p90, sres.p50)
    /\ ~FloatLE(sres.p99, sres.p95)
    /\ ~FloatLE(FromInt(sres.max), sres.p99)

Min(a, b) == IF a <= b THEN a ELSE b

\* the reference of C5, evaluated in the program's arithmetic: f is the
\* floor of the exact quotient and c = min(f + 1, n - 1)
RefPercentile(s, p) ==
    LET n == Len(s)
        k == DivInt((n - 1) * p, 100)
        f == ((n - 1) * p) \div 100
        c == Min(f + 1, n - 1)
    IN  IF c > f
        THEN AddInt(MulInt(SubInt(k, f), s[c + 1] - s[f + 1]), s[f + 1])
        ELSE FromInt(s[f + 1])

\* C5: for a non-empty ascending array s and p in {50, 90, 95, 99},
\* percentile(s, p) is the linear-interpolation reference; a single element
\* is returned for every p, and [10, 20, 30] has p50 = 20 exactly.
C5_Interpolation ==
    (spc = "percentile" /\ pres.sorted_arr # <<>>) =>
        /\ pres.value = RefPercentile(pres.sorted_arr, pres.p)
        /\ Len(pres.sorted_arr) = 1 => pres.value = FromInt(pres.sorted_arr[1])
        /\ (pres.sorted_arr = <<10, 20, 30>> /\ pres.p = 50) => pres.value = FromInt(20)

\* percentile([10, 20, 30], 50) has returned 20
C5_Witness ==
    /\ spc = "percentile"
    /\ pres.sorted_arr = <<10, 20, 30>> /\ pres.p = 50
    /\ pres.value = FromInt(20)

-----------------------------------------------------------------------------
(* Properties of parse_log (SpecParse)                                     *)

\* C8: parse_log returns one (duration, failed) pair per event line of the
\* text, in the order of the event lines, the duration being the value of
\* the digits and failed telling whether the marker is part of the line; a
\* text without event lines, the empty text included, gives the empty list.
C8_Events == ppc = "done" => pdata = EventsOf(pieces)

\* an event line, a line end, a failed event line: [(120, F), (340, T)]
C8_Witness ==
    /\ ppc = "done"
    /\ Len(pieces) = 3 /\ pieces[2].kind = "junk"
    /\ pdata = <<Event(120, FALSE), Event(340, TRUE)>>

-----------------------------------------------------------------------------
(* Properties of main (Spec)                                               *)

HasExited == mpc = "exited"
Parsed    == calls = <<1, 2>>

Kinds(lines) == {lines[k].kind : k \in 1..Len(lines)}

\* the lines of standard output that show a number of the series name
ValueLines(name) ==
    {k \in 1..Len(out) :
        /\ "series" \in DOMAIN out[k]
        /\ out[k].series = name
        /\ \/ out[k].kind \in {"name", "n", "minmax", "mean", "percentiles",
                               "fails", "trend_row"}
           \/ out[k].kind = "trend_line" /\ out[k].cells # <<>>}

SummaryKinds == {"summary_n", "summary_mean", "summary_max", "summary_p99",
                 "summary_fail_rate"}

\* C3: with a log file missing, parse_log is never called and nothing is
\* ever written to standard output; the run ends with status 1 when the
\* first file is missing and with status 2 when only the second is, the
\* message being the one line of the error channel.
C3_MissingFile ==
    /\ (~Exists(log1) \/ ~Exists(log2)) => (calls = <<>> /\ out = <<>>)
    /\ (HasExited /\ ~Exists(log1)) =>
           (status = Exited(1) /\ err = <<"Missing fastbot1.log">>)
    /\ (HasExited /\ Exists(log1) /\ ~Exists(log2)) =>
           (status = Exited(2) /\ err = <<"Missing fastbot2.log">>)

\* the first file present, the second missing, the run over with status 2
C3_Witness ==
    HasExited /\ Exists(log1) /\ ~Exists(log2) /\ status = Exited(2)

EmptyShowsNothing(name, data) ==
    data = <<>> => (ValueLines(name) = {} /\ Kinds(out) \cap SummaryKinds = {})

\* C7: stats returns None exactly for the empty series, segment_avgs
\* returns no segment for it, and a run of main with an empty series prints
\* no value of that series and no summary row, and ends with status 0.
C7_EmptySeries ==
    Parsed =>
        /\ (s1 = None) <=> (d1 = <<>>)
        /\ (s2 = None) <=> (d2 = <<>>)
        /\ d1 = <<>> => (segment_avgs(d1, 4) = <<>> /\ segment_avgs(d1, 10) = <<>>)
        /\ d2 = <<>> => (segment_avgs(d2, 4) = <<>> /\ segment_avgs(d2, 10) = <<>>)
        /\ EmptyShowsNothing(Name1, d1)
        /\ EmptyShowsNothing(Name2, d2)
        /\ (HasExited /\ (d1 = <<>> \/ d2 = <<>>)) =>
               (status = Exited(0) /\ err = <<>>)

\* the first log without an event line, the second with one, the run over
C7_Witness ==
    /\ HasExited /\ Parsed /\ d1 = <<>> /\ d2 # <<>>
    /\ status = Exited(0)
    /\ "heading4" \in Kinds(out)

\* C10: with both log files present main prints its four parts and ends
\* with status 0, whatever the two series; status 1 means that the first
\* log file is missing.
C10_AlwaysCompletes ==
    /\ (HasExited /\ Exists(log1) /\ Exists(log2)) =>
           /\ status = Exited(0)
           /\ {"heading1", "heading2", "heading3", "heading4"} \subseteq Kinds(out)
    /\ status = Exited(1) => ~Exists(log1)

=============================================================================
